---- MODULE Spec2Model ----
(***************************************************************************)
(* The submission pipeline of the delegation backend: SubmitH.ServeHTTP,   *)
(* the attempt counter it calls, the whitelist it reads, makePaths, and    *)
(* app.Save with its destinations, and main: the start of the service and  *)
(* the goroutine that refreshes the whitelist.                             *)
(*                                                                         *)
(* Every request handler is a process that walks the stages of ServeHTTP   *)
(* one step at a time; the steps of different handlers interleave freely.  *)
(* A string is the sequence of its characters, where a run of characters   *)
(* that is never taken apart (a literal, a key, a number) is one element;  *)
(* the concatenation of strings is the concatenation of sequences.         *)
(***************************************************************************)
EXTENDS Integers, Sequences, FiniteSets, TLC

(***************************************************************************)
(* Bounds of the model.                                                    *)
(***************************************************************************)
\* the clock runs over the ticks 1..MaxTime
MaxTime == 3
\* clock ticks per second: the sub-second resolution of time.Now()
TicksPerSecond == 2
\* seconds per day, scaled down
SecondsPerDay == 2
\* the attempt window of the rate limiter, in ticks
Window == 1
\* the configured requests per key and window range over 1..MaxQuota
MaxQuota == 2

\* the snapshots the heap has room for: the fetches that succeed are bounded
\* by it
MaxSnapshots == 2

\* the calls made of the attempt counter under test
MaxCalls == 4
\* the calls made of makePaths under test
MaxPathCalls == 2

\* the concurrent request handlers, one request each
Handlers == {1, 2}
\* the submitter keys that occur in requests
Pks == {"p1", "p2"}
\* the block payloads that occur in requests
Blocks == {"b1"}
\* the lists RetrieveWhitelist can return
Lists == SUBSET Pks

(***************************************************************************)
(* Program constants and zero values.                                      *)
(***************************************************************************)
\* MAX_SUBMIT_PAYLOAD_SIZE, in bytes, scaled down
MAX_SUBMIT_PAYLOAD_SIZE == 1
\* TIME_DIFF_DELTA, in ticks: negative, so that Add(TIME_DIFF_DELTA) moves
\* created_at back by the clock-skew tolerance
TIME_DIFF_DELTA == -1

nilPk == ""
nilSig == ""
nilTime == 0
NoPath == <<>>
NoObjects == <<>>
\* the nil *WhitelistMVar: no snapshot is set
nilWhitelist == 0

\* the destinations in the order app.Save walks them
DestOrder == <<"S3", "Keyspaces", "PostgreSQL", "LocalFS">>
Destinations == {DestOrder[i] : i \in 1..Len(DestOrder)}
\* the storage configurations the model starts from
Configs == {{"S3"}, {"LocalFS"}}

VARIABLES
    now,                      \* the wall clock, in ticks
    cfg,                      \* appCfg: the configured destinations
    WhitelistDisabled,        \* app.WhitelistDisabled
    VerifySignatureDisabled,  \* app.VerifySignatureDisabled
    requestsPerPkHourly,      \* the maximum the attempt counter is built with
    whitelist,                \* app.Whitelist: the address of the current snapshot
    attempts,                 \* app.SubmitCounter: key -> recorded attempt times
    store,                    \* destination -> (path present there -> completed writes)
    mayFail,                  \* whether the storage services can fail
    hd,                       \* handler -> the locals of its ServeHTTP call
    snapshots,                \* the heap of whitelists: address -> the keys listed
    main,                     \* the position of main, and what it died of
    IsReady,                  \* app.IsReady
    refresher,                \* the whitelist refresh goroutine
    calls                     \* the calls made of a function under test

vars == <<now, cfg, WhitelistDisabled, VerifySignatureDisabled,
          requestsPerPkHourly, whitelist, attempts, store, mayFail, hd,
          snapshots, main, IsReady, refresher, calls>>

\* what no request handler writes
background == <<snapshots, main, IsReady, refresher, calls>>

config == <<cfg, WhitelistDisabled, VerifySignatureDisabled, requestsPerPkHourly,
           mayFail>>

(***************************************************************************)
(* Pure helpers.                                                           *)
(***************************************************************************)
min(a, b) == IF a < b THEN a ELSE b

\* a number in decimal
Decimal(n) == <<"0", "1", "2", "3", "4", "5", "6", "7", "8", "9">>[n + 1]

\* time.Time.UTC().Format(time.RFC3339), "2006-01-02T15:04:05Z": the
\* sub-second part is dropped; the date (the first 10 characters) is one
\* element, the time of day another
FormatRFC3339(t) ==
    LET s == t \div TicksPerSecond
    IN  <<Decimal(s \div SecondsPerDay), "T", Decimal(s % SecondsPerDay), "Z">>

\* submittedAt[:10]
First10(str) == SubSeq(str, 1, 1)

\* Pk.String()
String(pk) == <<pk>>

\* strings.Join
RECURSIVE Join(_, _)
Join(elems, sep) ==
    IF Len(elems) = 0 THEN <<>>
    ELSE IF Len(elems) = 1 THEN elems[1]
    ELSE elems[1] \o <<sep>> \o Join(Tail(elems), sep)

\* MakePathsImpl with the submitter left out of the metadata path
MakePathsImpl_NoSubmitter(submittedAt, blockHash, submitter) ==
    [Meta  |-> Join(<< <<"submissions">>, First10(submittedAt),
                       submittedAt \o <<".json">> >>, "/"),
     Block |-> <<"blocks", "/">> \o blockHash \o <<".dat">>]

\* lines 129-133
MakePathsImpl(submittedAt, blockHash, submitter) ==
    [Meta  |-> Join(<< <<"submissions">>, First10(submittedAt),
                       submittedAt \o <<"-">> \o String(submitter) \o <<".json">> >>,
                    "/"),
     Block |-> <<"blocks", "/">> \o blockHash \o <<".dat">>]

makePaths(submittedAt, blockHash, submitter) ==
    MakePathsImpl(FormatRFC3339(submittedAt), blockHash, submitter)

\* strings.HasPrefix(path, "blocks/")
HasBlocksPrefix(path) == Len(path) >= 2 /\ SubSeq(path, 1, 2) = <<"blocks", "/">>

\* the hash of a block's bytes, as a string: equal bytes, equal hash
GetBlockDataHash(block) == <<"hash", block>>

\* the block hashes MakePathsImpl is tried with
Hashes == {GetBlockDataHash(b) : b \in Blocks \cup {"b2"}}

\* the required fields are those compared against the zero values
CheckRequiredFields(req) ==
    /\ req.submitter # nilPk
    /\ req.sig # nilSig
    /\ req.createdAt # nilTime
    /\ req.block # ""

\* a signature is identified by the key that made it
verifySig(pk, sig) == sig = pk

\* the requests json.Unmarshal can produce
Requests ==
    [submitter : Pks \cup {nilPk},
     sig       : Pks \cup {nilSig},
     createdAt : {nilTime, 2, MaxTime + 1},
     block     : Blocks \cup {""}]

NoReq == [submitter |-> nilPk, sig |-> nilSig, createdAt |-> nilTime, block |-> ""]

\* the locals of a handler that has not started
Fresh ==
    [pc |-> "start", cl |-> 0, req |-> NoReq, submittedAt |-> 0,
     ps |-> [Meta |-> NoPath, Block |-> NoPath], toSave |-> NoObjects,
     dest |-> 0, todo |-> {}, cur |-> NoPath,
     status |-> 0, body |-> "", trace |-> <<>>, recAt |-> 0, headErr |-> FALSE,
     wl |-> nilWhitelist, tried |-> {}]

(***************************************************************************)
(* The initial state: main has set the application up and serves.          *)
(***************************************************************************)
\* the destinations main opens a client, a session or a connection for
NeedInit == {"S3", "Keyspaces", "PostgreSQL"}

\* main is inside http.ListenAndServe, the backends of c initialized
Serving(c) == [pc |-> "serving", fatal |-> "", inited |-> c \cap NeedInit]

\* the refresh goroutine does not exist
NotSpawned == [pc |-> "off", last |-> "none", good |-> {}]

\* the refresh goroutine sleeps; good is the list of its last successful fetch
\* (at first the list main fetched), last the outcome of its last fetch
Sleeping(good) == [pc |-> "sleep", last |-> "none", good |-> good]

Started(c) ==
    /\ now = 1
    /\ cfg = c
    /\ WhitelistDisabled \in BOOLEAN
    /\ VerifySignatureDisabled \in BOOLEAN
    /\ requestsPerPkHourly \in 1..MaxQuota
    /\ mayFail \in BOOLEAN
    /\ snapshots = IF WhitelistDisabled THEN <<>> ELSE <<{"p1"}>>
    /\ whitelist = IF WhitelistDisabled THEN nilWhitelist ELSE 1
    /\ attempts = [k \in Pks |-> <<>>]
    /\ store = [d \in Destinations |-> NoObjects]
    /\ hd = [h \in Handlers |-> Fresh]
    /\ main = Serving(c)
    /\ IsReady = TRUE
    /\ refresher = IF WhitelistDisabled THEN NotSpawned ELSE Sleeping({"p1"})
    /\ calls = <<>>

\* one destination is configured
Init == \E c \in Configs : Started(c)

\* both destinations are configured and every submitter is admitted
InitFanout ==
    /\ Started({"S3", "LocalFS"})
    /\ WhitelistDisabled
    /\ VerifySignatureDisabled
    /\ requestsPerPkHourly = MaxQuota
    /\ mayFail

\* the stages that read the clock have not all been passed
ClockRead(l) == l.pc \in {"start", "auth", "fresh", "rate"}

\* time passes, for as long as some handler can still read the clock
Tick ==
    /\ now < MaxTime
    /\ \E h \in Handlers : ClockRead(hd[h])
    /\ now' = now + 1
    /\ UNCHANGED <<config, background, whitelist, attempts, store, hd>>

(***************************************************************************)
(* SubmitH.ServeHTTP.  Each stage is a function of the handler's locals l  *)
(* and of the inputs the stage reads; it acts only on a handler that has   *)
(* reached it (l.pc), so that a request that has been answered passes      *)
(* through the later stages unchanged.  An action runs the stages from one *)
(* access to shared state (the whitelist, the clock, the attempt counter,  *)
(* the stores) up to the next.                                             *)
(***************************************************************************)
\* a stage is entered: its name is appended to the handler's trace
Enter(l, stage) == [l EXCEPT !.trace = Append(@, stage)]

\* w.WriteHeader(code); writeErrorResponse(msg); return
Reject(l, code, msg) ==
    [l EXCEPT !.pc = "done", !.status = code, !.body = msg,
              !.cl = 0, !.req = NoReq, !.submittedAt = 0,
              !.ps = [Meta |-> NoPath, Block |-> NoPath]]

\* ContentLengthCheck with the return after WriteHeader(411) missing
ContentLengthCheck_NoReturn(l, cl) ==
    IF l.pc # "start" THEN l
    ELSE LET e == Enter(l, "length")
         IN  IF cl = -1 THEN [e EXCEPT !.pc = "read", !.status = 411]
             ELSE IF cl > MAX_SUBMIT_PAYLOAD_SIZE THEN Reject(e, 413, "")
             ELSE [e EXCEPT !.pc = "read", !.cl = cl]

\* lines 147-155
ContentLengthCheck(l, cl) ==
    IF l.pc # "start" THEN l
    ELSE LET e == Enter(l, "length")
         IN  IF cl = -1 THEN Reject(e, 411, "")
             ELSE IF cl > MAX_SUBMIT_PAYLOAD_SIZE THEN Reject(e, 413, "")
             ELSE [e EXCEPT !.pc = "read", !.cl = cl]

\* lines 156-162: io.ReadAll(io.LimitReader(r.Body, r.ContentLength))
ReadBody(l, avail, err1) ==
    IF l.pc # "read" THEN l
    ELSE LET e    == Enter(l, "read")
             body == min(avail, e.cl)
         IN  IF err1 \/ body # e.cl
             THEN Reject(e, 400, "Error reading the body")
             ELSE [e EXCEPT !.pc = "decode", !.cl = 0]

\* lines 164-170: json.Unmarshal(body, &req)
Decode(l, ok, r) ==
    IF l.pc # "decode" THEN l
    ELSE LET e == Enter(l, "decode")
         IN  IF ~ok THEN Reject(e, 400, "Error decoding payload")
             ELSE [e EXCEPT !.pc = "fields", !.req = r]

\* lines 174-179
RequiredFields(l) ==
    IF l.pc # "fields" THEN l
    ELSE LET e == Enter(l, "fields")
         IN  IF ~CheckRequiredFields(e.req)
             THEN Reject(e, 400, "One of required fields wasn't provided")
             ELSE [e EXCEPT !.pc = "auth"]

\* *wl: the keys of the snapshot at the address
Deref(wl) == snapshots[wl]

\* Authorize with the return after the 401 missing
Authorize_NoReturn(l, wl) ==
    IF l.pc # "auth" THEN l
    ELSE IF ~WhitelistDisabled
    THEN LET e == Enter(l, "auth")
         IN  IF e.req.submitter \notin Deref(wl)
             THEN [e EXCEPT !.pc = "fresh", !.status = 401,
                            !.body = "Submitter is not registered"]
             ELSE [e EXCEPT !.pc = "fresh"]
    ELSE [l EXCEPT !.pc = "fresh"]

\* lines 181-193; wl is what ReadWhitelist returned
Authorize(l, wl) ==
    IF l.pc # "auth" THEN l
    ELSE IF ~WhitelistDisabled
    THEN LET e == Enter(l, "auth")
         IN  IF e.req.submitter \notin Deref(wl)
             THEN Reject(e, 401, "Submitter is not registered")
             ELSE [e EXCEPT !.pc = "fresh"]
    ELSE [l EXCEPT !.pc = "fresh"]

\* After with equal instants counted as after
After_OrEqual(t, u) == t >= u

\* time.Time.After
After(t, u) == t > u

\* Freshness with the operands of After exchanged
Freshness_Swapped(l, t) ==
    IF l.pc # "fresh" THEN l
    ELSE LET e == [Enter(l, "fresh") EXCEPT !.submittedAt = t]
         IN  IF After(e.submittedAt, e.req.createdAt + TIME_DIFF_DELTA)
             THEN Reject(e, 400, "Field created_at is a timestamp in future")
             ELSE [e EXCEPT !.pc = "sig", !.req.createdAt = nilTime]

\* lines 195-201; t is what h.app.Now() returned
Freshness(l, t) ==
    IF l.pc # "fresh" THEN l
    ELSE LET e == [Enter(l, "fresh") EXCEPT !.submittedAt = t]
         IN  IF After(e.req.createdAt + TIME_DIFF_DELTA, e.submittedAt)
             THEN Reject(e, 400, "Field created_at is a timestamp in future")
             ELSE [e EXCEPT !.pc = "sig", !.req.createdAt = nilTime]

\* lines 203-218; err is MakeSignPayload's error
VerifySignature(l, err) ==
    IF l.pc # "sig" THEN l
    ELSE IF ~VerifySignatureDisabled
    THEN LET e == Enter(l, "sig")
         IN  IF err THEN Reject(e, 500, "Unexpected server error")
             ELSE IF ~verifySig(e.req.submitter, e.req.sig)
             THEN Reject(e, 401, "Invalid signature")
             ELSE [e EXCEPT !.pc = "rate", !.req.sig = nilSig]
    ELSE [l EXCEPT !.pc = "rate", !.req.sig = nilSig]

(***************************************************************************)
(* AttemptCounter.RecordAttempt, under the counter's lock: prune the       *)
(* attempts older than the window, refuse at the maximum, else record.     *)
(***************************************************************************)
Pruned(pk) ==
    LET InWindow(a) == now - a <= Window
    IN  SelectSeq(attempts[pk], InWindow)

\* Allowed with the maximum itself still admitted
Allowed_OffByOne(pk) == Len(Pruned(pk)) <= requestsPerPkHourly

Allowed(pk) == Len(Pruned(pk)) < requestsPerPkHourly

RecordAttempt(pk) ==
    [attempts EXCEPT ![pk] =
        IF Allowed(pk) THEN Append(Pruned(pk), now) ELSE Pruned(pk)]

\* RateLimit with RecordAttempt's answer ignored
RateLimit_Ignored(l, passesAttemptLimit) ==
    IF l.pc # "rate" THEN l
    ELSE [Enter(l, "rate") EXCEPT !.pc = "paths", !.recAt = now]

\* lines 220-225; passesAttemptLimit is RecordAttempt's answer
RateLimit(l, passesAttemptLimit) ==
    IF l.pc # "rate" THEN l
    ELSE LET e == Enter(l, "rate")
         IN  IF ~passesAttemptLimit
             THEN Reject(e, 429, "Too many requests per hour")
             ELSE [e EXCEPT !.pc = "paths", !.recAt = now]

\* lines 227-228
BuildPaths(l) ==
    IF l.pc # "paths" THEN l
    ELSE LET e         == Enter(l, "paths")
             blockHash == GetBlockDataHash(e.req.block)
         IN  [e EXCEPT !.pc = "meta", !.submittedAt = 0,
                       !.ps = makePaths(e.submittedAt, blockHash, e.req.submitter)]

\* ObjectsToSave with the block stored under the metadata key
ObjectsToSave_OneKey(ps, metaBytes, blockData) ==
    (ps.Meta :> blockData) @@ (ps.Meta :> metaBytes)

\* lines 244-246: the map assignments, the later one winning on equal keys
ObjectsToSave(ps, metaBytes, blockData) ==
    (ps.Block :> blockData) @@ (ps.Meta :> metaBytes)

\* lines 230-246; err1 is MakeMetaToBeSaved's error
BuildObjects(l, err1) ==
    IF l.pc # "meta" THEN l
    ELSE LET e == Enter(l, "meta")
         IN  IF err1 THEN Reject(e, 500, "Unexpected server error")
             ELSE [e EXCEPT !.pc = "save",
                            !.toSave = ObjectsToSave(e.ps, e.req.submitter, e.req.block)]

(***************************************************************************)
(* app.Save: the configured destinations in turn, and in each the objects  *)
(* of the map in any order.  dest is the destination being written, todo   *)
(* the paths its loop has not reached, cur the path past its existence     *)
(* check and before its write.                                             *)
(***************************************************************************)
Done == Len(DestOrder) + 1

\* lines 92-103 of main: the next configured destination after the i-th
NextDest(i) ==
    LET later == {j \in (i + 1)..Len(DestOrder) : DestOrder[j] \in cfg}
    IN  IF later = {} THEN Done
        ELSE CHOOSE j \in later : \A k \in later : j <= k

\* lines 251-256: the acknowledgement, once Save has returned
Respond(l) ==
    IF l.pc # "respond" THEN l
    ELSE [Enter(l, "respond") EXCEPT !.pc = "done", !.status = 200,
                                     !.body = "{status:ok}"]

\* the loop over one destination starts, or Save returns
Goto(l, d) ==
    IF d = Done
    THEN Respond([l EXCEPT !.pc = "respond", !.dest = 0, !.todo = {}, !.cur = NoPath,
                           !.headErr = FALSE])
    ELSE [l EXCEPT !.dest = d, !.todo = DOMAIN l.toSave, !.cur = NoPath,
                   !.headErr = FALSE]

\* Finish with a return from the destination's loop in place of the continue
Finish_Return(l, p) == Goto(l, NextDest(l.dest))

\* the loop body is over for path p
Finish(l, p) ==
    IF l.todo \ {p} # {}
    THEN [l EXCEPT !.todo = @ \ {p}, !.cur = NoPath, !.headErr = FALSE]
    ELSE Goto(l, NextDest(l.dest))

\* line 249: h.app.Save(toSave) is called
CallSave(l) ==
    IF l.pc # "save" THEN l
    ELSE Goto([Enter(l, "persist") EXCEPT !.pc = "saving"], NextDest(0))

InSave(h) == hd[h].pc = "saving"

\* the loop of the destination being written reaches path p
Visit(l, p) == [l EXCEPT !.tried = @ \cup {<<DestOrder[l.dest], p>>}]

Present(d, p) == p \in DOMAIN store[d]

\* a write of path p completes at destination d
Put(d, p) ==
    [store EXCEPT ![d] = (p :> (IF p \in DOMAIN @ THEN @[p] + 1 ELSE 1)) @@ @]

At(h, d) ==
    /\ InSave(h)
    /\ hd[h].dest \in 1..Len(DestOrder)
    /\ DestOrder[hd[h].dest] = d

\* what a storage call can answer besides the truth
Failures == IF mayFail THEN {"error"} ELSE {}

(***************************************************************************)
(* The actions of a handler.                                               *)
(***************************************************************************)
\* the handler's step that leaves everything but its own locals alone
Local(h, l) ==
    /\ hd' = [hd EXCEPT ![h] = l]
    /\ UNCHANGED <<now, config, background, whitelist, attempts, store>>

\* the values an input is drawn from: S when the handler has reached the stage
\* that reads the input, a placeholder when it has been answered before
Drawn(l, stage, S, none) == IF l.pc = stage THEN S ELSE {none}

\* lines 144-179: the request arrives and is read, decoded and checked
Receive(h) ==
    /\ main.pc = "serving"
    /\ hd[h].pc = "start"
    /\ \A g \in Handlers : g < h => hd[g].pc # "start"
    /\ \E cl \in -1..(MAX_SUBMIT_PAYLOAD_SIZE + 1) :
         LET a == ContentLengthCheck(hd[h], cl)
         IN  \E avail \in Drawn(a, "read", 0..(MAX_SUBMIT_PAYLOAD_SIZE + 1), 0),
                err1 \in Drawn(a, "read", BOOLEAN, FALSE) :
               LET b == ReadBody(a, avail, err1)
               IN  \E ok \in Drawn(b, "decode", BOOLEAN, FALSE) :
                     \E r \in (IF ok THEN Requests ELSE {NoReq}) :
                       Local(h, RequiredFields(Decode(b, ok, r)))

\* WhitelistMVar.ReadWhitelist: the address of the current snapshot
ReadWhitelist == whitelist

\* lines 181-193: the whitelist is read and looked up
CheckWhitelist(h) ==
    /\ hd[h].pc = "auth"
    /\ Local(h, Authorize(hd[h], ReadWhitelist))

\* lines 195-218: the clock is read, then the signature verified
CheckRequest(h) ==
    /\ hd[h].pc = "fresh"
    /\ \E err \in BOOLEAN :
         Local(h, VerifySignature(Freshness(hd[h], now), err))

\* Admit with the attempt taken back when the marshaling of the metadata fails
Admit_Refund(h) ==
    /\ hd[h].pc = "rate"
    /\ \E err1 \in BOOLEAN :
         LET pk == hd[h].req.submitter
         IN  /\ attempts' = IF err1 THEN [attempts EXCEPT ![pk] = Pruned(pk)]
                            ELSE RecordAttempt(pk)
             /\ hd' = [hd EXCEPT ![h] =
                          CallSave(BuildObjects(BuildPaths(
                              RateLimit(hd[h], Allowed(pk))), err1))]
    /\ UNCHANGED <<now, config, background, whitelist, store>>

\* lines 220-249: the attempt is recorded, the objects are built and Save is
\* called
Admit(h) ==
    /\ hd[h].pc = "rate"
    /\ \E err1 \in BOOLEAN :
         LET pk == hd[h].req.submitter
         IN  /\ attempts' = RecordAttempt(pk)
             /\ hd' = [hd EXCEPT ![h] =
                          CallSave(BuildObjects(BuildPaths(
                              RateLimit(hd[h], Allowed(pk))), err1))]
    /\ UNCHANGED <<now, config, background, whitelist, store>>

\* AfterHead with the continue after a successful HeadObject missing
AfterHead_NoSkip(l, p, answer) ==
    [l EXCEPT !.cur = p, !.headErr = answer = "error"]

\* lines 48-60: what S3Save does with HeadObject's answer for a block path;
\* headErr is whether err is an error other than NotFound
AfterHead(l, p, answer) ==
    IF answer = "found" THEN Finish(l, p)
    ELSE [l EXCEPT !.cur = p, !.headErr = answer = "error"]

\* lines 46-60: the loop reaches a block path and asks HeadObject
S3Head(h) ==
    /\ At(h, "S3")
    /\ hd[h].cur = NoPath
    /\ \E p \in hd[h].todo :
         /\ HasBlocksPrefix(p)
         /\ \E answer \in {IF Present("S3", p) THEN "found" ELSE "NotFound"}
                             \cup Failures :
              hd' = [hd EXCEPT ![h] = AfterHead(Visit(hd[h], p), p, answer)]
    /\ UNCHANGED <<now, config, background, whitelist, attempts, store>>

\* lines 46-47, 62-71: PutObject, for a path without the blocks/ prefix or
\* past the check
S3Put(h) ==
    /\ At(h, "S3")
    /\ \E p \in (IF hd[h].cur # NoPath THEN {hd[h].cur}
                  ELSE {q \in hd[h].todo : ~HasBlocksPrefix(q)}) :
         \E answer \in {"ok"} \cup Failures :
              /\ store' = IF answer = "ok" THEN Put("S3", p) ELSE store
              /\ hd' = [hd EXCEPT ![h] = Finish(Visit(hd[h], p), p)]
    /\ UNCHANGED <<now, config, background, whitelist, attempts>>

\* AfterStat with a failed os.Stat answered as a server error
AfterStat_Surfaced(l, p, answer) ==
    IF answer = "NotExist" THEN [l EXCEPT !.cur = p]
    ELSE IF answer = "error"
    THEN Reject([l EXCEPT !.dest = 0, !.todo = {}], 500, "Unexpected server error")
    ELSE Finish(l, p)

\* lines 80-83: what LocalFileSystemSave does with os.Stat's answer
AfterStat(l, p, answer) ==
    IF answer = "NotExist" THEN [l EXCEPT !.cur = p] ELSE Finish(l, p)

\* lines 76-83: the loop reaches a path and asks os.Stat
LocalStat(h) ==
    /\ At(h, "LocalFS")
    /\ hd[h].cur = NoPath
    /\ \E p \in hd[h].todo :
         \E answer \in {IF Present("LocalFS", p) THEN "exists" ELSE "NotExist"}
                         \cup Failures :
              hd' = [hd EXCEPT ![h] = AfterStat(Visit(hd[h], p), p, answer)]
    /\ UNCHANGED <<now, config, background, whitelist, attempts, store>>

\* lines 85-94: os.MkdirAll, then os.WriteFile, which creates the file and
\* then writes it, so that a failed write may leave the file behind
LocalWrite(h) ==
    /\ At(h, "LocalFS")
    /\ hd[h].cur # NoPath
    /\ LET p == hd[h].cur
       IN  \E outcome \in {"ok"} \cup
                           (IF mayFail THEN {"mkdirError", "openError", "writeError"}
                            ELSE {}) :
             /\ store' = IF outcome = "ok" THEN Put("LocalFS", p)
                         ELSE IF outcome = "writeError" /\ ~Present("LocalFS", p)
                         THEN [store EXCEPT !["LocalFS"] = (p :> 0) @@ @]
                         ELSE store
             /\ hd' = [hd EXCEPT ![h] = Finish(hd[h], p)]
    /\ UNCHANGED <<now, config, background, whitelist, attempts>>

Next ==
    \/ Tick
    \/ \E h \in Handlers :
         \/ Receive(h)
         \/ CheckWhitelist(h)
         \/ CheckRequest(h)
         \/ Admit(h)
         \/ S3Head(h)
         \/ S3Put(h)
         \/ LocalStat(h)
         \/ LocalWrite(h)

Spec == Init /\ [][Next]_vars

SpecFanout == InitFanout /\ [][Next]_vars

\* a handler calls Save only while no other handler is inside Save
SerialSaves ==
    \A h \in Handlers :
        ~InSave(h) /\ InSave(h)' => \A g \in Handlers \ {h} : ~InSave(g)

NextSerial ==
    \/ Tick
    \/ \E h \in Handlers :
         \/ Receive(h)
         \/ CheckWhitelist(h)
         \/ CheckRequest(h)
         \/ Admit(h) /\ SerialSaves
         \/ S3Head(h)
         \/ S3Put(h)
         \/ LocalStat(h)
         \/ LocalWrite(h)

\* the behaviours in which the calls of Save follow one another
SpecSerial == Init /\ [][NextSerial]_vars

(***************************************************************************)
(* The whitelist refresh goroutine of main, and the authorization stage in *)
(* its two steps: ReadWhitelist returns the address of a snapshot, and the *)
(* lookup reads the snapshot at that address.                              *)
(***************************************************************************)
\* Replace with the current snapshot overwritten where it lies
Replace_InPlace(list) ==
    /\ snapshots' = [snapshots EXCEPT ![whitelist] = list]
    /\ whitelist' = whitelist

\* WhitelistMVar.Replace(&wl): wl is a fresh variable of the caller; its
\* address becomes the current snapshot
Replace(list) ==
    /\ snapshots' = Append(snapshots, list)
    /\ whitelist' = Len(snapshots) + 1

\* line 146: time.Sleep returns and RetrieveWhitelist is called
RefreshWake ==
    /\ refresher.pc = "sleep"
    /\ refresher' = [refresher EXCEPT !.pc = "fetch"]
    /\ UNCHANGED <<now, config, whitelist, attempts, store, hd, snapshots,
                   main, IsReady, calls>>

\* AfterFetch with the snapshot emptied when the fetch failed
AfterFetch_Emptied(err, wl) ==
    IF err
    THEN /\ refresher' = [refresher EXCEPT !.pc = "sleep", !.last = "error"]
         /\ Replace({})
    ELSE /\ refresher' = [pc |-> "sleep", last |-> "ok", good |-> wl]
         /\ Replace(wl)

\* lines 148-153: what the goroutine does with RetrieveWhitelist's answer
AfterFetch(err, wl) ==
    IF err
    THEN /\ refresher' = [refresher EXCEPT !.pc = "sleep", !.last = "error"]
         /\ UNCHANGED <<whitelist, snapshots>>
    ELSE /\ refresher' = [pc |-> "sleep", last |-> "ok", good |-> wl]
         /\ Replace(wl)

\* lines 147-153: RetrieveWhitelist returns
RefreshFetched ==
    /\ refresher.pc = "fetch"
    /\ \E err \in (IF Len(snapshots) < MaxSnapshots THEN BOOLEAN ELSE {TRUE}) :
         \E wl \in (IF err THEN {{}} ELSE Lists) : AfterFetch(err, wl)
    /\ UNCHANGED <<now, config, attempts, store, hd, main, IsReady, calls>>

\* ReadSnapshot that waits for the goroutine to sleep
ReadSnapshot_Waits(h) ==
    /\ refresher.pc = "sleep"
    /\ ~WhitelistDisabled
    /\ hd[h].pc = "auth" /\ hd[h].wl = nilWhitelist
    /\ Local(h, [hd[h] EXCEPT !.wl = ReadWhitelist])

\* line 182: wl := h.app.Whitelist.ReadWhitelist()
ReadSnapshot(h) ==
    /\ ~WhitelistDisabled
    /\ hd[h].pc = "auth" /\ hd[h].wl = nilWhitelist
    /\ Local(h, [hd[h] EXCEPT !.wl = ReadWhitelist])

\* lines 183-190: the submitter is looked up in *wl
LookupSnapshot(h) ==
    /\ hd[h].pc = "auth" /\ hd[h].wl # nilWhitelist
    /\ Local(h, [Authorize(hd[h], hd[h].wl) EXCEPT !.wl = nilWhitelist])

\* the service runs with the whitelist enabled and S3 as its destination
InitRefresh ==
    /\ Started({"S3"})
    /\ ~WhitelistDisabled
    /\ VerifySignatureDisabled
    /\ requestsPerPkHourly = MaxQuota
    /\ ~mayFail

NextRefresh ==
    \/ Tick
    \/ RefreshWake
    \/ RefreshFetched
    \/ \E h \in Handlers :
         \/ Receive(h)
         \/ ReadSnapshot(h)
         \/ LookupSnapshot(h)
         \/ CheckRequest(h)
         \/ Admit(h)
         \/ S3Head(h)
         \/ S3Put(h)

\* the handlers and the refresh goroutine side by side
SpecRefresh == InitRefresh /\ [][NextRefresh]_vars

(***************************************************************************)
(* main, from its first line to http.ListenAndServe.                       *)
(***************************************************************************)
\* log.Fatal: the message is logged and the process exits
Fatal(msg) == [main EXCEPT !.pc = "fatal", !.fatal = msg]

\* the message main dies of when the initialization of d fails
InitError(d) ==
    CASE d = "S3" -> "Error loading AWS configuration"
      [] d = "Keyspaces" -> "Error initializing Keyspace session"
      [] d = "PostgreSQL" -> "Error initializing PostgreSQL"

\* line 106
NoBackend(c) == "S3" \notin c /\ "LocalFS" \notin c /\ "Keyspaces" \notin c

\* lines 45-89 walk the backends in this order
SetupOrder == <<"S3", "Keyspaces", "LocalFS", "PostgreSQL">>

\* the backends lines 45-89 reach: the configured ones up to the first whose
\* initialization fails
Reached(failed) ==
    {SetupOrder[i] : i \in {j \in 1..Len(SetupOrder) :
        /\ SetupOrder[j] \in cfg
        /\ \A k \in 1..(j - 1) : SetupOrder[k] \notin failed}}

\* lines 44-114; failed are the backends whose initialization returns an error
StorageSetup ==
    /\ main.pc = "storage"
    /\ \E failed \in SUBSET (cfg \cap NeedInit) :
         LET reached == Reached(failed)
             broken  == reached \cap failed
         IN  main' = IF broken # {}
                     THEN [Fatal(InitError(CHOOSE d \in broken : TRUE))
                             EXCEPT !.inited = (reached \ broken) \cap NeedInit]
                     ELSE IF NoBackend(cfg)
                     THEN [Fatal("No storage backend configured!")
                             EXCEPT !.inited = reached \cap NeedInit]
                     ELSE [main EXCEPT !.pc = "whitelist",
                                       !.inited = reached \cap NeedInit]
    /\ UNCHANGED <<now, config, whitelist, attempts, store, hd, snapshots,
                   IsReady, refresher, calls>>

\* AfterInitialFetch with main going on when the first fetch fails
AfterInitialFetch_Continue(err2, err, wl) ==
    IF err2
    THEN /\ main' = Fatal("Error creating Sheets service")
         /\ UNCHANGED <<whitelist, snapshots, refresher>>
    ELSE IF err
    THEN /\ main' = [main EXCEPT !.pc = "ready"]
         /\ UNCHANGED <<whitelist, snapshots, refresher>>
    ELSE /\ Replace(wl)
         /\ refresher' = Sleeping(wl)
         /\ main' = [main EXCEPT !.pc = "ready"]

\* lines 132-155: err2 is sheets.NewService's error, err and wl are what the
\* first RetrieveWhitelist returns; the goroutine is started last
AfterInitialFetch(err2, err, wl) ==
    IF err2
    THEN /\ main' = Fatal("Error creating Sheets service")
         /\ UNCHANGED <<whitelist, snapshots, refresher>>
    ELSE IF err
    THEN /\ main' = Fatal("Failed to initialize whitelist")
         /\ UNCHANGED <<whitelist, snapshots, refresher>>
    ELSE /\ Replace(wl)
         /\ refresher' = Sleeping(wl)
         /\ main' = [main EXCEPT !.pc = "ready"]

\* lines 128-156
WhitelistSetup ==
    /\ main.pc = "whitelist"
    /\ IF WhitelistDisabled
       THEN /\ main' = [main EXCEPT !.pc = "ready"]
            /\ UNCHANGED <<whitelist, snapshots, refresher>>
       ELSE \E err2, err \in BOOLEAN :
              \E wl \in (IF err2 \/ err THEN {{}} ELSE Lists) :
                AfterInitialFetch(err2, err, wl)
    /\ UNCHANGED <<now, config, attempts, store, hd, IsReady, calls>>

\* line 159
Ready ==
    /\ main.pc = "ready"
    /\ IsReady' = TRUE
    /\ main' = [main EXCEPT !.pc = "listen"]
    /\ UNCHANGED <<now, config, whitelist, attempts, store, hd, snapshots,
                   refresher, calls>>

\* line 162: the server listens
ListenAndServe ==
    /\ main.pc = "listen"
    /\ main' = [main EXCEPT !.pc = "serving"]
    /\ UNCHANGED <<now, config, whitelist, attempts, store, hd, snapshots,
                   IsReady, refresher, calls>>

\* main begins, under any storage configuration
InitStartup ==
    /\ now = 1
    /\ cfg \in SUBSET Destinations
    /\ WhitelistDisabled \in BOOLEAN
    /\ VerifySignatureDisabled = TRUE
    /\ requestsPerPkHourly = MaxQuota
    /\ mayFail = FALSE
    /\ snapshots = <<>>
    /\ whitelist = nilWhitelist
    /\ attempts = [k \in Pks |-> <<>>]
    /\ store = [d \in Destinations |-> NoObjects]
    /\ hd = [h \in Handlers |-> Fresh]
    /\ main = [pc |-> "storage", fatal |-> "", inited |-> {}]
    /\ IsReady = FALSE
    /\ refresher = NotSpawned
    /\ calls = <<>>

\* main, and the requests up to their authorization
NextStartup ==
    \/ StorageSetup
    \/ WhitelistSetup
    \/ Ready
    \/ ListenAndServe
    \/ \E h \in Handlers :
         \/ Receive(h)
         \/ CheckWhitelist(h)

SpecStartup == InitStartup /\ [][NextStartup]_vars

(***************************************************************************)
(* The attempt counter on its own: any callers, any keys, at any times.    *)
(***************************************************************************)
\* app.SubmitCounter.RecordAttempt(pk) is called and answers
Call(pk) ==
    /\ Len(calls) < MaxCalls
    /\ attempts' = RecordAttempt(pk)
    /\ calls' = Append(calls, [key |-> pk, at |-> now, allowed |-> Allowed(pk)])
    /\ UNCHANGED <<now, config, whitelist, store, hd, snapshots, main, IsReady,
                   refresher>>

\* a counter built for any maximum, and no request
InitCounter ==
    /\ Started({"S3"})
    /\ WhitelistDisabled
    /\ VerifySignatureDisabled
    /\ ~mayFail

NextCounter ==
    \/ Tick
    \/ \E pk \in Pks : Call(pk)

SpecCounter == InitCounter /\ [][NextCounter]_vars

(***************************************************************************)
(* makePaths on its own, called with any time, block hash and submitter.   *)
(***************************************************************************)
CallMakePaths(t, blockHash, submitter) ==
    /\ Len(calls) < MaxPathCalls
    /\ calls' = Append(calls, [submittedAt |-> t, blockHash |-> blockHash,
                               submitter |-> submitter,
                               ps |-> makePaths(t, blockHash, submitter)])
    /\ UNCHANGED <<now, config, whitelist, attempts, store, hd, snapshots, main,
                   IsReady, refresher>>

\* the times makePaths is tried with: every tick of two days
PathTimes == 0..(2 * SecondsPerDay * TicksPerSecond - 1)

NextPaths ==
    \E t \in PathTimes, blockHash \in Hashes, submitter \in Pks :
        CallMakePaths(t, blockHash, submitter)

SpecPaths == InitCounter /\ [][NextPaths]_vars

(***************************************************************************)
(* What the claims speak of.                                               *)
(***************************************************************************)
Range(q) == {q[i] : i \in DOMAIN q}

\* the handler has entered the stage
Ran(h, stage) == stage \in Range(hd[h].trace)

\* how many times the handler has entered the stage
Times(h, stage) ==
    Cardinality({i \in DOMAIN hd[h].trace : hd[h].trace[i] = stage})

Answered(h) == hd[h].pc = "done"

\* an answered request is never touched again
Frozen(h) == Answered(h) => hd'[h] = hd[h]

\* the stages in the order of the specification; "meta" is the marshaling of
\* the metadata, the first half of the persist stage
StageOrder ==
    <<"length", "read", "decode", "fields", "auth", "fresh", "sig", "rate",
      "paths", "meta", "persist", "respond">>

\* the stages of StageOrder that the configuration does not switch off
StagesRun ==
    LET On(stage) == /\ stage = "auth" => ~WhitelistDisabled
                     /\ stage = "sig" => ~VerifySignatureDisabled
    IN  SelectSeq(StageOrder, On)

IsPrefix(q, r) == Len(q) <= Len(r) /\ SubSeq(r, 1, Len(q)) = q

\* the stages that can end a request with the status
EndingStages(status) ==
    CASE status = 411 -> {"length"}
      [] status = 413 -> {"length"}
      [] status = 400 -> {"read", "decode", "fields", "fresh"}
      [] status = 401 -> {"auth", "sig"}
      [] status = 429 -> {"rate"}
      [] status = 500 -> {"sig", "meta"}
      [] OTHER -> {}

Terminal == {411, 413, 400, 401, 429, 500}

\* C1, per handler: the stages entered are an initial part of the fixed order,
\* and a terminal status was set by the last stage entered
InOrder(h) ==
    /\ IsPrefix(hd[h].trace, StagesRun)
    /\ hd[h].status \in Terminal =>
         /\ Answered(h)
         /\ hd[h].trace # <<>>
         /\ hd[h].trace[Len(hd[h].trace)] \in EndingStages(hd[h].status)
         /\ ~Ran(h, "persist")
         /\ hd[h].status # 429 /\ ~Ran(h, "meta") => ~Ran(h, "rate")

\* C1: the stages of ServeHTTP run in the fixed order (length, read, decode,
\* fields, authorization, freshness, signature, rate limiting, paths, persist,
\* response); once a stage has answered with 411, 413, 400, 401, 429 or 500
\* no later stage runs, and the answered request is never touched again, so
\* neither RecordAttempt nor Save is called for it afterwards.
C1_StagesInOrder ==
    /\ [](\A h \in Handlers : InOrder(h))
    /\ [][\A h \in Handlers : Frozen(h)]_vars

\* a request without Content-Length was answered 411 after the length stage
\* alone, and another request ran every stage up to the acknowledgement
C1_Witness ==
    \E h, g \in Handlers :
        /\ hd[h].status = 411 /\ hd[h].trace = <<"length">>
        /\ hd[g].status = 200 /\ hd[g].trace = StagesRun

\* the authorization stage of h runs in this step
AuthorizeStep(h) == hd[h].pc = "auth" /\ hd'[h] # hd[h]

\* neither the attempt counter nor a store is touched, and the request ends
\* with the status without having reached the rate limiter or Save
EndsUntouched(h, status, msg) ==
    /\ hd'[h].pc = "done"
    /\ hd'[h].status = status
    /\ hd'[h].body = msg
    /\ ~Ran(h, "rate")' /\ ~Ran(h, "persist")'
    /\ attempts' = attempts
    /\ store' = store

\* C2: with the whitelist enabled, a request whose submitter is absent from
\* the current snapshot ends with 401, no attempt is recorded for it and Save
\* is not called for it, then or later.
C2_UnlistedRejected ==
    /\ [][\A h \in Handlers :
            AuthorizeStep(h) /\ ~WhitelistDisabled
                /\ hd[h].req.submitter \notin Deref(whitelist)
            => EndsUntouched(h, 401, "Submitter is not registered")]_vars
    /\ [][\A h \in Handlers : hd[h].status = 401 => hd'[h] = hd[h]]_vars

\* an unlisted submitter was answered 401 by the authorization stage
C2_Witness ==
    \E h \in Handlers :
        /\ ~WhitelistDisabled
        /\ hd[h].status = 401
        /\ hd[h].body = "Submitter is not registered"
        /\ hd[h].trace[Len(hd[h].trace)] = "auth"

\* the clock-skew tolerance
Tolerance == 0 - TIME_DIFF_DELTA

\* the freshness stage of h runs in this step
FreshnessStep(h) == hd[h].pc = "fresh" /\ hd'[h] # hd[h]

\* C3: a request that reaches the freshness check with created_at later than
\* now plus the tolerance ends with 400; its signature is not verified, no
\* attempt is recorded for it and Save is not called for it, then or later.
C3_FutureRejected ==
    /\ [][\A h \in Handlers :
            FreshnessStep(h) /\ hd[h].req.createdAt > now + Tolerance
            => /\ EndsUntouched(h, 400, "Field created_at is a timestamp in future")
               /\ ~Ran(h, "sig")']_vars
    /\ [][\A h \in Handlers : hd[h].status = 400 => hd'[h] = hd[h]]_vars

\* a request from the future was answered 400 by the freshness stage
C3_Witness ==
    \E h \in Handlers :
        /\ hd[h].status = 400
        /\ hd[h].body = "Field created_at is a timestamp in future"
        /\ hd[h].trace[Len(hd[h].trace)] = "fresh"

\* Save has been called for the request
SaveCalled(h) == Ran(h, "persist")

\* RecordAttempt has returned true for the request
Admitted(h) == hd[h].recAt # 0

\* the requests of the key for which Save was called on an attempt recorded
\* in the window that starts at t
SavesInWindow(pk, t) ==
    {h \in Handlers : /\ SaveCalled(h)
                      /\ hd[h].req.submitter = pk
                      /\ hd[h].recAt \in t..(t + Window)}

\* the rate-limiting stage of h runs in this step
RateStep(h) == hd[h].pc = "rate" /\ hd'[h] # hd[h]

\* C4: a request that the rate limiter rejects (its submitter has the maximum
\* of attempts in the trailing window) ends with 429 and Save is not called
\* for it; the Save calls for one submitter within any window never exceed the
\* maximum.
C4_QuotaBoundsSaves ==
    /\ [][\A h \in Handlers :
            RateStep(h) /\ Len(Pruned(hd[h].req.submitter)) >= requestsPerPkHourly
            => /\ hd'[h].pc = "done"
               /\ hd'[h].status = 429
               /\ ~SaveCalled(h)'
               /\ store' = store]_vars
    /\ [][\A h \in Handlers : hd[h].status = 429 => hd'[h] = hd[h]]_vars
    /\ [](\A pk \in Pks, t \in 1..MaxTime :
            Cardinality(SavesInWindow(pk, t)) <= requestsPerPkHourly)

\* a request over the quota was answered 429 while the requests within the
\* quota reached Save
C4_Witness ==
    \E h, g \in Handlers :
        /\ hd[h].status = 429 /\ ~SaveCalled(h)
        /\ SaveCalled(g)
        /\ Cardinality(SavesInWindow(hd[g].req.submitter, hd[g].recAt)) = requestsPerPkHourly

\* the marshaling of the metadata failed
MarshalFailed(h) == hd[h].status = 500 /\ Ran(h, "meta")

\* Save was called once, with the metadata path and the block path as the two
\* entries, and the answer, once given, is the acknowledgement
SavedOnceAndAcknowledged(h) ==
    /\ Times(h, "persist") = 1
    /\ DOMAIN hd[h].toSave = {hd[h].ps.Meta, hd[h].ps.Block}
    /\ Cardinality(DOMAIN hd[h].toSave) = 2
    /\ hd[h].ps.Meta[1] = "submissions" /\ hd[h].ps.Block[1] = "blocks"
    /\ Answered(h) => hd[h].status = 200 /\ hd[h].body = "{status:ok}"
    /\ ~Answered(h) => InSave(h)

\* C5 as stated: for every request that passes all the checks, up to the rate
\* limiter, Save is called exactly once with the two entries and the response
\* is 200 {"status":"ok"}.
C5_Original ==
    \A h \in Handlers : Admitted(h) => SavedOnceAndAcknowledged(h)

\* C5, amended: for every request that passes all the checks and whose
\* metadata is marshaled without error, Save is called exactly once with the
\* two entries and the response is 200 {"status":"ok"}.
C5_AcceptedSavedOnce ==
    \A h \in Handlers :
        Admitted(h) /\ ~MarshalFailed(h) => SavedOnceAndAcknowledged(h)

\* a request passed every check and was acknowledged after one Save call
C5_Witness ==
    \E h \in Handlers :
        /\ Admitted(h) /\ hd[h].status = 200
        /\ Times(h, "persist") = 1
        /\ Cardinality(DOMAIN hd[h].toSave) = 2

\* C6: no two requests for which Save is called are given the same metadata
\* path.
C6_DistinctMetadataPaths ==
    \A h, g \in Handlers :
        h # g /\ SaveCalled(h) /\ SaveCalled(g) => hd[h].ps.Meta # hd[g].ps.Meta

\* the completed writes of the path at the destination
Writes(d, p) == IF Present(d, p) THEN store[d][p] ELSE 0

\* C7: when two distinct submitters submit the same block and both are
\* acknowledged, every destination has received each metadata object once and
\* the block object exactly once (no storage call failing).
C7_BlockWrittenOnce ==
    \A h, g \in Handlers :
        /\ h # g
        /\ hd[h].status = 200 /\ hd[g].status = 200
        /\ hd[h].req.submitter # hd[g].req.submitter
        /\ hd[h].ps.Block = hd[g].ps.Block
        /\ ~mayFail
        => \A d \in cfg :
              /\ Writes(d, hd[h].ps.Meta) = 1
              /\ Writes(d, hd[g].ps.Meta) = 1
              /\ Writes(d, hd[h].ps.Block) = 1

\* the block paths of the requests
BlockPaths == {hd[h].ps.Block : h \in Handlers} \ {NoPath}

\* the destination the handler is writing
DestOf(h) == DestOrder[hd[h].dest]

\* the handler is past the existence check of a block path and before its write
AboutToWriteBlock(h) ==
    InSave(h) /\ hd[h].cur # NoPath /\ HasBlocksPrefix(hd[h].cur)

\* C8 as stated, for calls of Save in sequence: no write of a block path is
\* performed at a destination where the object is already present, and so no
\* block object is written more than once.
C8_Original ==
    /\ \A h \in Handlers :
          AboutToWriteBlock(h) => ~Present(DestOf(h), hd[h].cur)
    /\ \A d \in cfg, p \in BlockPaths : Writes(d, p) <= 1

\* C8, amended, for calls of Save in sequence: a block path is written only
\* after its existence check, and not when the check finds the object; only
\* at S3, and only after a check that failed with an error other than
\* NotFound, is a block object written that is present.  Hence, the storage
\* calls not failing, no block object is written more than once, the second
\* Save being a no-op for the path; in the local file system that holds
\* whatever fails.
C8_BlockCheckedFirst ==
    /\ \A h \in Handlers :
          AboutToWriteBlock(h) /\ Present(DestOf(h), hd[h].cur)
          => DestOf(h) = "S3" /\ hd[h].headErr
    /\ \A d \in cfg, p \in BlockPaths :
          d = "LocalFS" \/ ~mayFail => Writes(d, p) <= 1

\* Save was called twice in sequence with the same objects, and the block was
\* written by the first call only
C8_Witness ==
    \E h, g \in Handlers :
        /\ h # g
        /\ hd[h].status = 200 /\ hd[g].status = 200
        /\ hd[h].toSave = hd[g].toSave
        /\ \E d \in cfg : Writes(d, hd[h].ps.Block) = 1

\* C9: a Save whose metadata path is already present at a destination still
\* writes the metadata object there: after two acknowledged requests with the
\* same metadata path every destination has received two writes of it (no
\* storage call failing).
C9_MetadataAlwaysWritten ==
    \A h, g \in Handlers :
        /\ h # g
        /\ hd[h].status = 200 /\ hd[g].status = 200
        /\ hd[h].ps.Meta = hd[g].ps.Meta
        /\ ~mayFail
        => \A d \in cfg : Writes(d, hd[h].ps.Meta) = 2

\* C10: once the objects of a request are built, the answer is the
\* acknowledgement, whatever the storage calls at the destinations answer.
C10_StorageFailuresNotSurfaced ==
    \A h \in Handlers :
        hd[h].toSave # NoObjects
        => \/ InSave(h) /\ hd[h].status = 0
           \/ Answered(h) /\ hd[h].status = 200 /\ hd[h].body = "{status:ok}"

\* a request was acknowledged although none of its objects reached any
\* destination
C10_Witness ==
    \E h \in Handlers :
        /\ hd[h].status = 200
        /\ Cardinality(cfg) = 2
        /\ \A d \in cfg, p \in DOMAIN hd[h].toSave : ~Present(d, p)

\* the pairs of a destination and a path of the handler's objects
Pairs(h, D) == {<<d, p>> : d \in D, p \in DOMAIN hd[h].toSave}

\* the configured destinations that app.Save calls before the i-th
Before(i) == {DestOrder[j] : j \in {k \in 1..(i - 1) : DestOrder[k] \in cfg}}

\* C11: within one call of Save the loop of every configured destination
\* reaches every path of the objects, whatever the storage calls answered at
\* other destinations or for other paths: when Save has returned every pair
\* of a configured destination and a path was attempted, and while Save is at
\* a destination every pair of the destinations before it was.
C11_EveryPairAttempted ==
    \A h \in Handlers :
        /\ hd[h].status = 200 => hd[h].tried = Pairs(h, cfg)
        /\ InSave(h) => /\ Pairs(h, Before(hd[h].dest)) \subseteq hd[h].tried
                        /\ hd[h].tried \subseteq Pairs(h, cfg)

\* Save has returned after every storage call at S3 failed, and the objects
\* were attempted, and written, in the local file system all the same
C11_Witness ==
    \E h \in Handlers :
        /\ hd[h].status = 200 /\ mayFail /\ cfg = {"S3", "LocalFS"}
        /\ hd[h].tried = Pairs(h, cfg)
        /\ \A p \in DOMAIN hd[h].toSave :
              ~Present("S3", p) /\ Writes("LocalFS", p) = 1

\* RetrieveWhitelist returns to the refresh goroutine in this step
FetchReturns == refresher.pc = "fetch" /\ refresher'.pc = "sleep"

\* the handler's ReadWhitelist call, and its lookup, run in this step
ReadStep(h) == hd[h].pc = "auth" /\ hd[h].wl = nilWhitelist /\ hd'[h] # hd[h]
LookupStep(h) == hd[h].pc = "auth" /\ hd[h].wl # nilWhitelist /\ hd'[h] # hd[h]

\* C12: the current snapshot is the list of the most recent successful fetch
\* (the startup fetch if none succeeded since); a failed fetch leaves the
\* snapshot as it is, a successful fetch replaces it, also after failures, and
\* a handler lets a submitter pass only if the snapshot it read lists it.
C12_LastGoodSnapshot ==
    /\ [](Deref(whitelist) = refresher.good)
    /\ [][FetchReturns /\ refresher'.last = "error"
            => /\ whitelist' = whitelist /\ snapshots' = snapshots
               /\ refresher'.good = refresher.good]_vars
    /\ [][FetchReturns /\ refresher'.last = "ok"
            => whitelist' # whitelist /\ Deref(whitelist)' = refresher'.good]_vars
    /\ [][\A h \in Handlers :
            LookupStep(h) /\ hd[h].req.submitter \notin Deref(hd[h].wl)
            => hd'[h].status = 401]_vars

\* a fetch succeeded with another list than the startup list, the next fetch
\* failed, and a request of a submitter only the startup list names was
\* answered 401
C12_Witness ==
    /\ refresher.last = "error" /\ refresher.pc = "sleep"
    /\ whitelist > 1
    /\ "p1" \notin Deref(whitelist)
    /\ \E h \in Handlers :
          hd[h].status = 401 /\ hd[h].trace[Len(hd[h].trace)] = "auth"

\* C14: ReadWhitelist hands the handler the address of the one snapshot that
\* is current at that moment; the lookup decides by the keys at that address;
\* Replace publishes a new address and no step changes the keys at an address
\* once published, so the decision is made against the snapshot before the
\* Replace or the one after it, in full.
C14_OneCompleteSnapshot ==
    /\ [][\A a \in DOMAIN snapshots :
            a \in DOMAIN snapshots' /\ snapshots'[a] = snapshots[a]]_vars
    /\ [][whitelist' # whitelist
            => whitelist' \notin DOMAIN snapshots
               /\ Deref(whitelist)' = refresher'.good]_vars
    /\ [][\A h \in Handlers :
            /\ ReadStep(h) => hd'[h].wl = whitelist /\ whitelist \in DOMAIN snapshots
            /\ LookupStep(h)
               => (hd'[h].status = 401
                   <=> hd[h].req.submitter \notin Deref(hd[h].wl))]_vars

\* a handler holds the snapshot it read while Replace has published another
\* one with other keys
C14_Witness ==
    \E h \in Handlers :
        /\ hd[h].pc = "auth" /\ hd[h].wl # nilWhitelist
        /\ hd[h].wl # whitelist
        /\ Deref(hd[h].wl) # Deref(whitelist)

\* C17: whatever the refresh goroutine does (it sleeps, a fetch is in
\* progress, its last fetch failed), a handler at the authorization stage can
\* take its next step, the read of the snapshot or the lookup in it.
C17_RefreshNeverBlocks ==
    \A h \in Handlers :
        hd[h].pc = "auth" => ENABLED (ReadSnapshot(h) \/ LookupSnapshot(h))

\* a handler passed the authorization stage and another is about to read the
\* snapshot while a fetch is in progress after a failed one
C17_Witness ==
    /\ refresher.pc = "fetch" /\ refresher.last = "error"
    /\ \E h, g \in Handlers :
          /\ hd[h].pc = "auth" /\ hd[h].wl = nilWhitelist
          /\ Ran(g, "auth") /\ hd[g].pc # "auth"

\* the whitelist is disabled, or a snapshot is set and is the fetched list
SnapshotSet ==
    \/ WhitelistDisabled
    \/ /\ whitelist # nilWhitelist
       /\ whitelist \in DOMAIN snapshots
       /\ Deref(whitelist) = refresher.good

\* C13: IsReady is true, and the server listens, only after the configured
\* backends are initialized and, unless the whitelist is disabled, the first
\* fetch has succeeded and its list is the snapshot; a request is handled
\* only while the server listens; when main has died (of a failed first fetch
\* or otherwise) IsReady is false, no request was ever handled, and nothing
\* happens any more.
C13_ReadyAfterStartup ==
    /\ [](IsReady \/ main.pc \in {"listen", "serving"}
            => /\ main.inited = cfg \cap NeedInit
               /\ main.fatal = ""
               /\ SnapshotSet)
    /\ [](main.pc = "serving" => IsReady)
    /\ [](\A h \in Handlers :
            hd[h] # Fresh => main.pc = "serving" /\ IsReady /\ SnapshotSet)
    /\ [](main.pc = "fatal"
            => ~IsReady /\ main.fatal # "" /\ \A h \in Handlers : hd[h] = Fresh)
    /\ [](main.fatal = "Failed to initialize whitelist" => whitelist = nilWhitelist)
    /\ [][main.pc # "fatal"]_vars

\* the server listens with the whitelist enabled and fetched, and a request
\* has passed the authorization stage
C13_Witness ==
    /\ main.pc = "serving" /\ IsReady /\ ~WhitelistDisabled
    /\ \E h \in Handlers : Ran(h, "auth") /\ hd[h].pc = "fresh"

\* the destinations app.Save writes to
SaveWritesTo == Destinations

\* C20: main dies of 'No storage backend configured!' only when none of the
\* destinations Save writes to is configured, and whenever a destination is
\* configured and the initializations succeed main goes on to the whitelist.
C20_AbortOnlyWithoutDestination ==
    /\ main.fatal = "No storage backend configured!" => cfg \cap SaveWritesTo = {}
    /\ main.pc # "storage" /\ cfg # {} /\ main.inited = cfg \cap NeedInit
       => main.pc # "fatal"

\* the calls before the i-th that were allowed for the same key no longer
\* than a window before it
AllowedBefore(i) ==
    {j \in 1..(i - 1) : /\ calls[j].key = calls[i].key
                        /\ calls[j].allowed
                        /\ calls[i].at - calls[j].at <= Window}

\* RecordAttempt answers false in this step
Refused == calls' # calls /\ ~calls'[Len(calls')].allowed

\* C15: a call of RecordAttempt(K) is allowed exactly when fewer than the
\* maximum of calls were allowed for K within the window that ends with it:
\* of max+1 calls within one window the first max are allowed and the last is
\* rejected, and once the window has elapsed a call is allowed again; a
\* rejected call records nothing; this in whatever order the callers of any
\* keys come.
C15_WindowedQuota ==
    /\ [](\A i \in 1..Len(calls) :
            calls[i].allowed <=> Cardinality(AllowedBefore(i)) < requestsPerPkHourly)
    /\ [][Refused
            => \A pk \in Pks : Range(attempts'[pk]) \subseteq Range(attempts[pk])
                                /\ Len(attempts'[pk]) <= Len(attempts[pk])]_vars

\* the maximum of calls for a key were allowed, the next one in the same
\* window was rejected, and a call after the window had elapsed was allowed
C15_Witness ==
    \E j, k \in 1..Len(calls) :
        /\ j < k
        /\ calls[j].key = calls[k].key
        /\ ~calls[j].allowed
        /\ Cardinality(AllowedBefore(j)) = requestsPerPkHourly
        /\ calls[k].allowed
        /\ \A i \in AllowedBefore(j) : calls[k].at - calls[i].at > Window

\* how many attempts of the key are recorded at the time
Count(q, t) == Cardinality({i \in DOMAIN q : q[i] = t})

\* C16: Save is called for a request only after RecordAttempt returned true
\* for it; the step in which RecordAttempt returns true records one attempt
\* of the submitter at that time, whether the request goes on to Save or ends
\* with 500 at the marshaling of its metadata; and a recorded attempt stays
\* recorded for as long as it is within the window, whatever the request and
\* its storage writes come to.
C16_SlotConsumedBeforeSave ==
    /\ [](\A h \in Handlers :
            SaveCalled(h) => Admitted(h) /\ IsPrefix(hd[h].trace, StagesRun))
    /\ [][\A h \in Handlers :
            RateStep(h) /\ (Admitted(h)' \/ SaveCalled(h)' \/ MarshalFailed(h)')
            => /\ Admitted(h)'
               /\ Count(attempts'[hd[h].req.submitter], now)
                    = Count(attempts[hd[h].req.submitter], now) + 1]_vars
    /\ [][\A pk \in Pks : \A t \in Range(attempts[pk]) :
            now - t <= Window
            => Count(attempts'[pk], t) >= Count(attempts[pk], t)]_vars

\* with a maximum of one, a request passed the rate limiter and ended with
\* 500 at the marshaling, and the next request was answered 429
C16_Witness ==
    /\ requestsPerPkHourly = 1
    /\ \E h, g \in Handlers :
          /\ Admitted(h) /\ MarshalFailed(h) /\ ~SaveCalled(h)
          /\ hd[g].status = 429

\* the RFC3339 UTC timestamp of the i-th call, and the triple of its day, its
\* submitter and its timestamp
Timestamp(i) == FormatRFC3339(calls[i].submittedAt)
Triple(i) == <<First10(Timestamp(i)), calls[i].submitter, Timestamp(i)>>

\* C18: makePaths is a pure function: calls with the same timestamp, block
\* hash and submitter return the same paths; distinct block hashes give
\* distinct block paths; distinct triples of day, submitter and RFC3339
\* timestamp give distinct metadata paths; the metadata path is
\* submissions/<date>/<timestamp>-<submitter>.json, the date being the first
\* characters of the timestamp, and the block path is blocks/<blockHash>.dat.
C18_PathsPure ==
    \A i, j \in 1..Len(calls) :
        /\ calls[i].submittedAt = calls[j].submittedAt
              /\ calls[i].blockHash = calls[j].blockHash
              /\ calls[i].submitter = calls[j].submitter
           => calls[i].ps = calls[j].ps
        /\ calls[i].blockHash # calls[j].blockHash
           => calls[i].ps.Block # calls[j].ps.Block
        /\ Triple(i) # Triple(j) => calls[i].ps.Meta # calls[j].ps.Meta
        /\ calls[i].ps.Meta =
              <<"submissions", "/">> \o First10(Timestamp(i)) \o <<"/">>
                 \o Timestamp(i) \o <<"-", calls[i].submitter, ".json">>
        /\ calls[i].ps.Block = <<"blocks", "/">> \o calls[i].blockHash \o <<".dat">>
        /\ IsPrefix(First10(Timestamp(i)), Timestamp(i))

\* makePaths was called for one submitter at the same time of day of two
\* days and for two block hashes, and the paths differ
C18_Witness ==
    \E i, j \in 1..Len(calls) :
        /\ First10(Timestamp(i)) # First10(Timestamp(j))
        /\ Timestamp(i)[3] = Timestamp(j)[3]
        /\ calls[i].submitter = calls[j].submitter
        /\ calls[i].blockHash # calls[j].blockHash
        /\ calls[i].ps.Meta # calls[j].ps.Meta
        /\ calls[i].ps.Block # calls[j].ps.Block

FutureMessage == "Field created_at is a timestamp in future"

\* C19: the freshness check rejects a request exactly when its created_at is
\* later than now plus the tolerance; a request created at or before now, or
\* ahead of now by no more than the tolerance, is not rejected as a future
\* timestamp and goes on to the signature verification (to the rate limiter
\* when the verification is disabled).
C19_FreshnessExact ==
    [][\A h \in Handlers :
        FreshnessStep(h)
        => IF hd[h].req.createdAt > now + Tolerance
           THEN hd'[h].status = 400 /\ hd'[h].body = FutureMessage
           ELSE /\ hd'[h].body # FutureMessage
                /\ hd'[h].status # 400
                /\ Ran(h, "fresh")'
                /\ IF VerifySignatureDisabled THEN hd'[h].pc = "rate"
                   ELSE Ran(h, "sig")']_vars

\* the earliest created_at of a request is one tick, the tolerance, after the
\* first tick of the clock: a request checked at the first tick, created
\* ahead of now by exactly the tolerance, has gone on, and a request created
\* later than that was rejected
C19_Witness ==
    \E h, g \in Handlers :
        /\ Ran(h, "fresh") /\ hd[h].pc = "rate"
        /\ hd[h].submittedAt = 1 /\ 1 + Tolerance = 2
        /\ hd[g].status = 400 /\ hd[g].body = FutureMessage

====
